---- MODULE Spec2Model ----
(***************************************************************************)
(* Section navigation and transition controller of the AI Encyclopedia     *)
(* page (src/ai-script.js, class AIEncyclopedia).                          *)
(*                                                                         *)
(* The state is the controller's currentSection field, the part of the     *)
(* document the controller reads and writes (the 'active' class of the     *)
(* .content-section elements and of the .nav-link elements, the URL        *)
(* fragment), the browser's timer queue holding the callbacks scheduled    *)
(* by navigateToChapter, the warning notifications emitted, and what the   *)
(* listeners did with the latest input event (preventDefault, the search   *)
(* prompt).  The audio cue of a transition may play, fail or be            *)
(* unsupported; an exception leaving a callback is recorded.  Time is      *)
(* discrete: each pending timer holds the ticks left before its deadline,  *)
(* callbacks run at their deadline in deadline order (timers due together  *)
(* in the order they were set), and input arrives between callbacks.       *)
(*                                                                         *)
(* Purely cosmetic callbacks and styles (fade animation, link scale,       *)
(* highlight marks, card animations, toast removal) touch none of these    *)
(* and are left out.                                                       *)
(***************************************************************************)
EXTENDS Integers, Sequences, FiniteSets, TLC

\* ------------------------------------------------------------------------
\* Bounds of the model
\* ------------------------------------------------------------------------

\* Number of user input events (clicks, key presses, search prompts) per run
\* on the small document, and on the full document.
MaxEvents == 2

MaxEventsFull == 1

\* Ticks per 150 ms: the instants at which input can arrive.
Resolution == 2

\* ------------------------------------------------------------------------
\* Program constants
\* ------------------------------------------------------------------------

\* setTimeout delay of the callback that shows the target section (ms).
EnterDelayMs == 150

\* setTimeout delay of the callback that hides the previous section (ms).
ExitDelayMs == 300

\* The chapters array of setupKeyboardNavigation / navigateWithArrowKeys.
chapters ==
    << "introduction", "genesis", "evolution", "current-state",
       "human-transformation", "dark-side", "psychological-impact",
       "future-scenarios", "singularity", "conclusion" >>

\* ------------------------------------------------------------------------
\* Text: strings are sequences of one-character strings
\* ------------------------------------------------------------------------

\* String.prototype.toLowerCase on one character of the model's alphabet.
LowerChar(c) ==
    CASE c = "A" -> "a"
      [] c = "B" -> "b"
      [] OTHER   -> c

\* String.prototype.toLowerCase.
ToLowerCase(s) == [i \in 1..Len(s) |-> LowerChar(s[i])]

RECURSIVE TrimStart(_)
TrimStart(s) ==
    IF s # << >> /\ Head(s) = " " THEN TrimStart(Tail(s)) ELSE s

RECURSIVE TrimEnd(_)
TrimEnd(s) ==
    IF s # << >> /\ s[Len(s)] = " " THEN TrimEnd(SubSeq(s, 1, Len(s) - 1)) ELSE s

\* String.prototype.trim.
Trim(s) == TrimEnd(TrimStart(s))

\* String.prototype.includes: term occurs in content as a contiguous run.
Includes(content, term) ==
    \E k \in 0..(Len(content) - Len(term)) :
        \A i \in 1..Len(term) : content[k + i] = term[i]

\* ------------------------------------------------------------------------
\* The external document
\* ------------------------------------------------------------------------

\* A document: its .content-section elements in document order (by id), the
\* chapters carried by a [data-chapter] nav link, and each section's
\* textContent.  Every document has the introduction section the constructor
\* starts on.
FullDoc ==
    [ sections |-> chapters,
      links    |-> { chapters[i] : i \in 1..Len(chapters) },
      text     |-> [ s \in { chapters[i] : i \in 1..Len(chapters) } |->
                       CASE s = "introduction" -> << "A", "b" >>
                         [] s = "genesis"      -> << "b", "a" >>
                         [] s = "evolution"    -> << "B" >>
                         [] s = "conclusion"   -> << "a", " ", "B" >>
                         [] OTHER              -> << "c" >> ] ]

\* A smaller document: seven chapters have no section, singularity has a
\* menu entry but no section, and conclusion has a section but no menu entry.
SmallDoc ==
    [ sections |-> << "introduction", "genesis", "conclusion" >>,
      links    |-> { "introduction", "genesis", "singularity" },
      text     |-> [ s \in { "introduction", "genesis", "conclusion" } |->
                       CASE s = "introduction" -> << "A", "b" >>
                         [] s = "genesis"      -> << "b", "a" >>
                         [] OTHER              -> << "a", " ", "B" >> ] ]

Docs == [ full |-> FullDoc, small |-> SmallDoc ]

\* URL fragments the page may be loaded with (without the leading '#').
InitialHashes == { "", "genesis", "conclusion", "appendix" }

\* What window.prompt may return: null on cancel, else the typed text.
PromptResults ==
    { [ cancelled |-> TRUE,  text |-> << >> ],
      [ cancelled |-> FALSE, text |-> << >> ],
      [ cancelled |-> FALSE, text |-> << " " >> ],
      [ cancelled |-> FALSE, text |-> << " ", "B", " " >> ],
      [ cancelled |-> FALSE, text |-> << "A", "B" >> ],
      [ cancelled |-> FALSE, text |-> << "b", "a" >> ],
      [ cancelled |-> FALSE, text |-> << "z" >> ] }

\* What playTransitionSound may meet: the tone plays, the audio API throws
\* (unsupported context, blocked), or Audio is undefined.
AudioOutcomes == { "plays", "throws", "undefined" }

VARIABLES
    doc,             \* which document the page is ("full" or "small")
    pushState,       \* whether the browser provides history.pushState
    loaded,          \* the DOMContentLoaded handler has finished
    currentSection,  \* this.currentSection
    active,          \* ids of the .content-section elements with class 'active'
    navActive,       \* data-chapter of the .nav-link elements with class 'active'
    hash,            \* the URL fragment, without '#'
    timers,          \* pending setTimeout callbacks, in the order they were set
    notified,        \* 'No results found' warnings shown by the latest input event
    event,           \* the latest input event: preventDefault called, prompt's fate
    uncaught,        \* an exception has left a listener or a timer callback
    hist,            \* history: the navigateToChapter calls of the latest episode
    nEvents          \* number of user input events so far

vars == << doc, pushState, loaded, currentSection, active, navActive, hash,
           timers, notified, event, uncaught, hist, nEvents >>

\* The ids of the document's sections.
SectionIds(d) == { Docs[d].sections[i] : i \in 1..Len(Docs[d].sections) }

\* document.getElementById(id) finds a section.
GetElementById(d, id) == id \in SectionIds(d)

\* document.querySelector('[data-chapter="id"]') finds a menu entry.
QueryNavLink(d, id) == id \in Docs[d].links

\* The controller and document state the operations below transform.
World ==
    [ doc |-> doc, pushState |-> pushState, cur |-> currentSection,
      active |-> active, nav |-> navActive, hash |-> hash, timers |-> timers,
      notified |-> notified, event |-> event, uncaught |-> uncaught,
      hist |-> hist ]

\* ------------------------------------------------------------------------
\* Controller operations
\* ------------------------------------------------------------------------

RECURSIVE GCD(_, _)
GCD(a, b) == IF b = 0 THEN a ELSE GCD(b, a % b)

\* A setTimeout delay in ticks.
Ticks(ms) == (ms \div GCD(ExitDelayMs, EnterDelayMs)) * Resolution

ExitTimer(el) == [ kind |-> "exit", id |-> el, left |-> Ticks(ExitDelayMs) ]

\* Variant: the target is shown only after the exit delay has elapsed.
EnterTimerAfterExit(chapter) ==
    [ kind |-> "enter", id |-> chapter, left |-> Ticks(ExitDelayMs + EnterDelayMs) ]

EnterTimer(chapter) == [ kind |-> "enter", id |-> chapter, left |-> Ticks(EnterDelayMs) ]

\* Variant: the target is marked without clearing the other sections.
ShowSectionNoClear(w, sectionId) ==
    [ w EXCEPT !.active =
        IF GetElementById(w.doc, sectionId) THEN w.active \cup { sectionId }
        ELSE w.active ]

\* showSection(sectionId): clear every section, then mark the target.
ShowSection(w, sectionId) ==
    [ w EXCEPT !.active =
        IF GetElementById(w.doc, sectionId) THEN { sectionId } ELSE { } ]

\* Variant: without the early return on chapter = currentSection.
NavigateToChapterNoSameCheck(w, chapter) ==
    IF ~GetElementById(w.doc, chapter) THEN w
    ELSE [ w EXCEPT !.timers =
             w.timers
             \o (IF GetElementById(w.doc, w.cur) THEN << ExitTimer(w.cur) >> ELSE << >>)
             \o << EnterTimer(chapter) >> ]

\* Variant: without the early return on a missing target element.
NavigateToChapterNoExistCheck(w, chapter) ==
    IF w.cur = chapter THEN w
    ELSE [ w EXCEPT !.timers =
             w.timers
             \o (IF GetElementById(w.doc, w.cur) THEN << ExitTimer(w.cur) >> ELSE << >>)
             \o << EnterTimer(chapter) >> ]

\* Variant: the URL fragment is rewritten at the request, not in the
\* callback that assigns currentSection.
NavigateToChapterPushesUrl(w, chapter) ==
    IF w.cur = chapter THEN w
    ELSE IF ~GetElementById(w.doc, chapter) THEN w
    ELSE [ w EXCEPT
             !.hash = IF w.pushState THEN chapter ELSE w.hash,
             !.timers =
               w.timers
               \o (IF GetElementById(w.doc, w.cur) THEN << ExitTimer(w.cur) >> ELSE << >>)
               \o << EnterTimer(chapter) >> ]

\* Variant: a new request drops the callbacks still pending from earlier
\* requests.
NavigateToChapterCancelsPending(w, chapter) ==
    IF w.cur = chapter THEN w
    ELSE IF ~GetElementById(w.doc, chapter) THEN w
    ELSE [ w EXCEPT !.timers =
             (IF GetElementById(w.doc, w.cur) THEN << ExitTimer(w.cur) >> ELSE << >>)
             \o << EnterTimer(chapter) >> ]

\* navigateToChapter(chapter), up to the scheduling of its two callbacks.
NavigateToChapter(w, chapter) ==
    IF w.cur = chapter THEN w
    ELSE IF ~GetElementById(w.doc, chapter) THEN w
    ELSE [ w EXCEPT !.timers =
             w.timers
             \o (IF GetElementById(w.doc, w.cur) THEN << ExitTimer(w.cur) >> ELSE << >>)
             \o << EnterTimer(chapter) >> ]

\* The callback scheduled at 300 ms: currentEl.classList.remove('active').
ExitCallback(w, el) == [ w EXCEPT !.active = w.active \ { el } ]

\* Variant: without the try/catch around the audio calls.
PlayTransitionSoundNoCatch(w, sound) ==
    [ w |-> w, threw |-> sound = "throws" ]

\* playTransitionSound(), meeting `sound`: it changes nothing the controller
\* reads, and whatever the audio calls throw is caught inside.
PlayTransitionSound(w, sound) ==
    [ w |-> w, threw |-> FALSE ]

\* Variant: the callback does not rewrite the URL fragment.
EnterCallbackWithoutUrl(w, chapter, sound) ==
    [ ShowSection(w, chapter) EXCEPT !.cur = chapter ]

\* The callback scheduled at 150 ms: showSection, currentSection,
\* playTransitionSound, pushState.  An exception ends the callback there.
EnterCallback(w, chapter, sound) ==
    LET shown  == [ ShowSection(w, chapter) EXCEPT !.cur = chapter ]
        played == PlayTransitionSound(shown, sound)
    IN  IF played.threw THEN [ played.w EXCEPT !.uncaught = TRUE ]
        ELSE [ played.w EXCEPT
                 !.hash = IF w.pushState THEN chapter ELSE w.hash ]

\* Variant: the class is removed from every element carrying it, sections
\* included, not only from the menu entries.
UpdateActiveNavClearsAll(w, link) == [ w EXCEPT !.nav = { link }, !.active = { } ]

\* updateActiveNav(activeLink): clear every menu entry, mark the given one.
UpdateActiveNav(w, link) == [ w EXCEPT !.nav = { link } ]

\* History.  An episode starts with a call of navigateToChapter made while no
\* callback is pending and lasts until the next such call.  Of the episode
\* are kept: the section it started on and whether that section was the one
\* active section (idle), the targets of its first two calls, the number of
\* its calls (3 standing for three or more), whether its second call came
\* before any of its callbacks ran (early), whether any callback has run
\* (fired) and whether the audio cue of its latest enter callback threw
\* (soundThrew);
\* and of the latest call: its target, currentSection when it was made, and
\* the adapter that made it.
NoHistory ==
    [ from |-> "", idle |-> FALSE, targets |-> << >>, n |-> 0, early |-> FALSE,
      fired |-> FALSE, soundThrew |-> FALSE, last |-> "", lastFrom |-> "",
      by |-> "" ]

Note(w, chapter, by) ==
    LET h == w.hist
    IN  [ w EXCEPT !.hist =
            IF w.timers = << >>
            THEN [ from |-> w.cur, idle |-> w.active = { w.cur },
                   targets |-> << chapter >>, n |-> 1, early |-> FALSE,
                   fired |-> FALSE, soundThrew |-> FALSE, last |-> chapter,
                   lastFrom |-> w.cur, by |-> by ]
            ELSE [ h EXCEPT
                   !.targets = IF h.n < 2 THEN Append(h.targets, chapter) ELSE h.targets,
                   !.n = IF h.n < 3 THEN h.n + 1 ELSE h.n,
                   !.early = h.n = 1 /\ ~h.fired,
                   !.last = chapter, !.lastFrom = w.cur, !.by = by ] ]

\* A call of navigateToChapter as the adapter `by` makes it.
Call(w, chapter, by) == NavigateToChapter(Note(w, chapter, by), chapter)

\* navigateToChapter(id) followed by `if (navLink) updateActiveNav(navLink)`.
CallAndMark(w, id, by) ==
    LET after == Call(w, id, by)
    IN  IF QueryNavLink(w.doc, id) THEN UpdateActiveNav(after, id) ELSE after

\* The state after w becomes the next state.
Becomes(w) ==
    \E v \in { w } :
        /\ hist'           = v.hist
        /\ notified'       = v.notified
        /\ event'          = v.event
        /\ uncaught'       = v.uncaught
        /\ timers'         = v.timers
        /\ navActive'      = v.nav
        /\ currentSection' = v.cur
        /\ active'         = v.active
        /\ hash'           = v.hash
        /\ UNCHANGED << doc, pushState >>

\* ------------------------------------------------------------------------
\* Input adapters
\* ------------------------------------------------------------------------

\* What the listeners have done with an input event before any has run.
NoEvent == [ prevented |-> FALSE, prompt |-> "none" ]

\* e.preventDefault().
PreventDefault(w) == [ w EXCEPT !.event.prevented = TRUE ]

\* Array.prototype.indexOf on the chapters array: 0-based, -1 when absent.
IndexOf(id) ==
    IF \E i \in 1..Len(chapters) : chapters[i] = id
    THEN (CHOOSE i \in 1..Len(chapters) : chapters[i] = id) - 1
    ELSE -1

\* Variant: the index stops at either end of the catalog.
NextIndexClamped(key, currentIndex) ==
    IF key = "ArrowLeft"
    THEN (IF currentIndex > 0 THEN currentIndex - 1 ELSE 0)
    ELSE (IF currentIndex < Len(chapters) - 1 THEN currentIndex + 1
          ELSE Len(chapters) - 1)

\* The nextIndex computed by navigateWithArrowKeys.
NextIndex(key, currentIndex) ==
    IF key = "ArrowLeft"
    THEN (IF currentIndex > 0 THEN currentIndex - 1 ELSE Len(chapters) - 1)
    ELSE (IF currentIndex < Len(chapters) - 1 THEN currentIndex + 1 ELSE 0)

\* navigateWithArrowKeys(key).
NavigateWithArrowKeys(w, key) ==
    CallAndMark(w, chapters[NextIndex(key, IndexOf(w.cur)) + 1], key)

\* The keys a keydown event may carry; DigitKeys are those with
\* '1' <= key <= '9'.
DigitKeys == { "1", "2", "3", "4", "5", "6", "7", "8", "9" }

Keys == DigitKeys \cup { "0", "ArrowLeft", "ArrowRight", "Escape", "f", "a" }

\* parseInt(e.key) for a digit key.
ParseInt(key) ==
    CASE key = "1" -> 1 [] key = "2" -> 2 [] key = "3" -> 3
      [] key = "4" -> 4 [] key = "5" -> 5 [] key = "6" -> 6
      [] key = "7" -> 7 [] key = "8" -> 8 [] key = "9" -> 9
      [] OTHER -> 0

\* Variant: the digit is used as the index, without the `- 1`.
QuickNavigationOneOff(w, key) ==
    LET index == ParseInt(key)
    IN  IF index + 1 \in 1..Len(chapters)
        THEN CallAndMark(w, chapters[index + 1], "digit")
        ELSE w

\* The Cmd/Ctrl + number branch of the keydown listener.
QuickNavigation(w, key) ==
    LET index == ParseInt(key) - 1
    IN  IF index + 1 \in 1..Len(chapters)
        THEN CallAndMark(w, chapters[index + 1], "digit")
        ELSE w

\* The Escape branch of the keydown listener.
EscapeToIntroduction(w) == CallAndMark(w, "introduction", "Escape")

\* The body run by performSearch's forEach for one section.  Its `return`
\* leaves only this callback: forEach goes on to the next section.
SearchVisit(w, term, sectionId) ==
    IF Includes(ToLowerCase(Docs[w.doc].text[sectionId]), term)
    THEN [ w |-> CallAndMark(w, sectionId, "search"), found |-> TRUE ]
    ELSE [ w |-> w, found |-> FALSE ]

\* sections.forEach(...) of performSearch from the i-th section on; the
\* result carries the `found` flag.
RECURSIVE SearchEach(_, _, _, _)
SearchEach(w, term, i, found) ==
    IF i > Len(Docs[w.doc].sections)
    THEN [ w |-> w, found |-> found ]
    ELSE LET r == SearchVisit(w, term, Docs[w.doc].sections[i])
         IN  SearchEach(r.w, term, i + 1, found \/ r.found)

\* showNotification('No results found for ...', 'warning').
ShowNoResults(w) == [ w EXCEPT !.notified = w.notified + 1 ]

\* Variant: the found flag is not consulted.
PerformSearchAlwaysNotifies(w, term) ==
    ShowNoResults(SearchEach(w, term, 1, FALSE).w)

\* performSearch(term).
PerformSearch(w, term) ==
    LET r == SearchEach(w, term, 1, FALSE)
    IN  IF ~r.found THEN ShowNoResults(r.w) ELSE r.w

\* Variant: the prompt value is not tested after trimming.
ShowSearchDialogNoTrimTest(w, p) ==
    IF ~p.cancelled /\ p.text # << >>
    THEN PerformSearch([ w EXCEPT !.event.prompt = "searched" ],
                       ToLowerCase(Trim(p.text)))
    ELSE [ w EXCEPT !.event.prompt = "rejected" ]

\* showSearchDialog(), with p what prompt() returned.  A cancelled prompt
\* returns null and an empty string is falsy.
ShowSearchDialog(w, p) ==
    IF ~p.cancelled /\ p.text # << >> /\ Trim(p.text) # << >>
    THEN PerformSearch([ w EXCEPT !.event.prompt = "searched" ],
                       ToLowerCase(Trim(p.text)))
    ELSE [ w EXCEPT !.event.prompt = "rejected" ]

\* Both keydown listeners of the class, in registration order, on one event.
OnKeyDown(w, key, mod, p) ==
    LET w1 == IF mod /\ key \in DigitKeys
              THEN QuickNavigation(PreventDefault(w), key) ELSE w
        w2 == IF key \in { "ArrowLeft", "ArrowRight" }
              THEN NavigateWithArrowKeys(PreventDefault(w1), key) ELSE w1
        w3 == IF key = "Escape" THEN EscapeToIntroduction(w2) ELSE w2
    IN  IF mod /\ key = "f" THEN ShowSearchDialog(PreventDefault(w3), p) ELSE w3

\* The tail of the DOMContentLoaded handler: initial hash navigation.
InitialHash(w) ==
    IF w.hash # "" /\ QueryNavLink(w.doc, w.hash)
    THEN UpdateActiveNav(Call(w, w.hash, "hash"), w.hash)
    ELSE w

\* ------------------------------------------------------------------------
\* Timers
\* ------------------------------------------------------------------------

\* Some callback is due.
Due(ts) == \E i \in 1..Len(ts) : ts[i].left = 0

\* Timer i is due and no timer set before it is.
CanFire(ts, i) ==
    /\ ts[i].left = 0
    /\ \A j \in 1..(i - 1) : ts[j].left > 0

RemoveAt(ts, i) == SubSeq(ts, 1, i - 1) \o SubSeq(ts, i + 1, Len(ts))

\* Running the callback of timer i; the audio cue, if it is played, meets
\* `sound`.
RunTimer(w, i, sound) ==
    LET t    == w.timers[i]
        rest == [ w EXCEPT !.timers = RemoveAt(w.timers, i), !.hist.fired = TRUE ]
    IN  IF t.kind = "exit" THEN ExitCallback(rest, t.id)
        ELSE EnterCallback([ rest EXCEPT !.hist.soundThrew = (sound = "throws") ],
                           t.id, sound)

\* ------------------------------------------------------------------------
\* The state machine
\* ------------------------------------------------------------------------

\* The state once `new AIEncyclopedia()` has returned, inside the
\* DOMContentLoaded handler.
Init ==
    /\ doc \in DOMAIN Docs
    /\ pushState \in BOOLEAN
    /\ loaded = FALSE
    /\ currentSection = "introduction"
    /\ active = ShowSection([ doc |-> doc, active |-> { } ], "introduction").active
    /\ navActive \in { { }, { "introduction" } }
    /\ hash \in InitialHashes
    /\ timers = << >>
    /\ notified = 0
    /\ event = NoEvent
    /\ uncaught = FALSE
    /\ hist = NoHistory
    /\ nEvents = 0

\* The DOMContentLoaded handler runs to its end.
DOMContentLoaded ==
    /\ ~loaded
    /\ loaded' = TRUE
    /\ Becomes(InitialHash(World))
    /\ UNCHANGED nEvents

\* A user input event is delivered to its listeners, which start from w.  A
\* callback that is due runs first.
Input(w) ==
    /\ loaded
    /\ ~Due(timers)
    /\ nEvents < (IF doc = "full" THEN MaxEventsFull ELSE MaxEvents)
    /\ nEvents' = nEvents + 1
    /\ UNCHANGED loaded
    /\ Becomes(w)

\* The state the listeners of an input event start from.
Fresh == [ World EXCEPT !.notified = 0, !.event = NoEvent ]

\* The click listener of a menu entry: preventDefault, navigateToChapter,
\* updateActiveNav.
OnClickNavLink(w, chapter) ==
    UpdateActiveNav(Call(PreventDefault(w), chapter, "click"), chapter)

\* Click on the menu entry of chapter.
ClickNavLink(chapter) ==
    /\ QueryNavLink(doc, chapter)
    /\ Input(OnClickNavLink(Fresh, chapter))

\* The prompt is consulted only when the event opens the search dialog.
PromptsOn(key, mod) ==
    IF mod /\ key = "f" THEN PromptResults
    ELSE { [ cancelled |-> TRUE, text |-> << >> ] }

\* The keydown events delivered.  Meta/Ctrl is read only by the digit and
\* F branches of the listeners: an event without it on any other key does
\* what the event with it does, and on a digit what it does on "1".
KeyEvents ==
    { [ key |-> k, mod |-> TRUE ] : k \in Keys }
        \cup { [ key |-> k, mod |-> FALSE ] : k \in { "1", "f" } }

\* A keydown event; p is what prompt() returns if the search dialog opens.
KeyDown(key, mod, p) ==
    Input(OnKeyDown(Fresh, key, mod, p))

\* Click on the search icon.
ClickSearchIcon(p) ==
    Input(ShowSearchDialog(Fresh, p))

\* Time passes: nothing is due, and every pending timer gets closer.
Tick ==
    /\ timers # << >>
    /\ ~Due(timers)
    /\ timers' = [ i \in 1..Len(timers) |->
                     [ timers[i] EXCEPT !.left = timers[i].left - 1 ] ]
    /\ UNCHANGED << doc, pushState, loaded, currentSection, active, navActive,
                    hash, notified, event, uncaught, hist, nEvents >>

\* The audio cue is played only by the callback that shows the target.
SoundsOn(i) ==
    IF timers[i].kind = "enter" THEN AudioOutcomes ELSE { "" }

\* The event loop runs a due timer callback.
FireTimer(i, sound) ==
    /\ CanFire(timers, i)
    /\ Becomes(RunTimer(World, i, sound))
    /\ UNCHANGED << loaded, nEvents >>

Next ==
    \/ DOMContentLoaded
    \/ \E chapter \in Docs[doc].links : ClickNavLink(chapter)
    \/ \E e \in KeyEvents :
          \E p \in PromptsOn(e.key, e.mod) : KeyDown(e.key, e.mod, p)
    \/ \E p \in PromptResults : ClickSearchIcon(p)
    \/ Tick
    \/ \E i \in 1..Len(timers) : \E sound \in SoundsOn(i) : FireTimer(i, sound)

Spec == Init /\ [][Next]_vars

\* The event loop: time does not stop while a timer is pending, and a
\* callback that is due is run.
FairSpec ==
    /\ Spec
    /\ WF_vars(Tick)
    /\ WF_vars(\E i \in 1..Len(timers) : \E sound \in SoundsOn(i) : FireTimer(i, sound))

\* ------------------------------------------------------------------------
\* Vocabulary of the properties
\* ------------------------------------------------------------------------

\* No navigation callback is pending.
Quiescent == loaded /\ timers = << >>

\* The prompt value of an event that opens no search dialog.
NoPrompt == [ cancelled |-> TRUE, text |-> << >> ]

\* Everything an adapter can pass to navigateToChapter.
Targets == { chapters[i] : i \in 1..Len(chapters) } \cup Docs[doc].links \cup { hash }

\* Every chapter and every menu entry of the document has its section, so
\* every request names an existing section.
EveryTargetExists ==
    \A c \in { chapters[i] : i \in 1..Len(chapters) } \cup Docs[doc].links :
        GetElementById(doc, c)

\* The step is an adapter making the single call navigateToChapter(c), which
\* is then the latest call of the history.
SingleCall(c) ==
    /\ hist'.last = c
    /\ \/ ClickNavLink(c)
       \/ \E key \in DigitKeys :
             chapters[ParseInt(key)] = c /\ KeyDown(key, TRUE, NoPrompt)
       \/ \E key \in { "ArrowLeft", "ArrowRight" }, mod \in BOOLEAN :
             /\ chapters[NextIndex(key, IndexOf(currentSection)) + 1] = c
             /\ KeyDown(key, mod, NoPrompt)
       \/ c = "introduction" /\ \E mod \in BOOLEAN : KeyDown("Escape", mod, NoPrompt)
       \/ hash = c /\ c # "" /\ QueryNavLink(doc, c) /\ DOMContentLoaded

\* The prompt value passes showSearchDialog's test, and the term it yields.
Accepted(p) == ~p.cancelled /\ Trim(p.text) # << >>

TermOf(p) == ToLowerCase(Trim(p.text))

\* The step is a search for what the prompt p returned; the calls it makes,
\* if any, are the search's.  Of the two ways to open the prompt only the
\* key event has its default prevented.
SearchStep(p) ==
    /\ event'.prompt # "none"
    /\ hist'.by = "search" \/ hist' = hist
    /\ \/ ~event'.prevented /\ ClickSearchIcon(p)
       \/ event'.prevented /\ KeyDown("f", TRUE, p)

\* The search terms the prompt values yield.
Terms == { TermOf(p) : p \in { q \in PromptResults : Accepted(q) } }

\* For each document and term, the positions in document order of the
\* sections whose text contains the term case-insensitively.
MatchTable ==
    [ d \in DOMAIN Docs |->
        [ term \in Terms |->
            { i \in 1..Len(Docs[d].sections) :
                Includes(ToLowerCase(Docs[d].text[Docs[d].sections[i]]), term) } ] ]

Matching(term) == MatchTable[doc][term]

FirstMatch(term) ==
    Docs[doc].sections[CHOOSE i \in Matching(term) : \A j \in Matching(term) : i <= j]

\* The latest episode is one accepted call made in an idle state.
SoloNavigation ==
    /\ hist.n = 1
    /\ hist.idle
    /\ hist.last # hist.from
    /\ GetElementById(doc, hist.last)

\* The latest episode is the race: idle at A, navigateToChapter(B), then
\* navigateToChapter(C) before any callback ran, and no request since.
RaceOfTwo ==
    /\ hist.n = 2
    /\ hist.idle
    /\ hist.early
    /\ hist.targets[1] # hist.from
    /\ hist.targets[2] # hist.from
    /\ hist.targets[1] # hist.targets[2]
    /\ GetElementById(doc, hist.targets[1])
    /\ GetElementById(doc, hist.targets[2])

\* ------------------------------------------------------------------------
\* C1: in every reachable state exactly one section is marked active and it
\* is currentSection.
\* ------------------------------------------------------------------------
ExactlyOneActiveIsCurrent == active = { currentSection }

\* ------------------------------------------------------------------------
\* C2: last write wins: once every callback has fired, the active section
\* and currentSection are the target of the last request issued (all
\* requests naming existing sections).
\* ------------------------------------------------------------------------
LastWriteWins ==
    (Quiescent /\ EveryTargetExists /\ hist.n > 0)
        => (currentSection = hist.last /\ active = { hist.last })

\* ------------------------------------------------------------------------
\* C3: the race idle(A), navigateToChapter(B), navigateToChapter(C) before
\* any callback has fired never shows two sections or none, and ends with
\* C the only active section and currentSection = C.
\* ------------------------------------------------------------------------
RaceEndsAtLastTarget ==
    RaceOfTwo =>
        /\ Cardinality(active) = 1
        /\ timers = << >> => (currentSection = hist.targets[2]
                              /\ active = { hist.targets[2] })

RaceCompleted ==
    RaceOfTwo /\ timers = << >> /\ hist.fired /\ currentSection = hist.targets[2]

\* ------------------------------------------------------------------------
\* C4 as stated: after a single navigateToChapter(X) from an idle state,
\* X existing and not current, once both callbacks have fired,
\* currentSection = X, X is the only active section and the URL fragment
\* is X.
\* ------------------------------------------------------------------------
SoloNavigationSetsFragment ==
    (SoloNavigation /\ timers = << >>)
        => /\ currentSection = hist.last
           /\ active = { hist.last }
           /\ hash = hist.last

\* C4 as amended: the same, the URL fragment being X when the browser
\* provides history.pushState.
SoloNavigationCompletes ==
    (SoloNavigation /\ timers = << >>)
        => /\ currentSection = hist.last
           /\ active = { hist.last }
           /\ pushState => hash = hist.last

SoloNavigationCompleted ==
    SoloNavigation /\ timers = << >> /\ hist.fired /\ pushState /\ hash = hist.last

\* ------------------------------------------------------------------------
\* C5: at most one section is marked active, and a section marked active
\* is currentSection.
\* ------------------------------------------------------------------------
AtMostOneActive ==
    /\ Cardinality(active) <= 1
    /\ \A s \in active : s = currentSection

SectionSwapped ==
    hist.fired /\ currentSection # "introduction" /\ active = { currentSection }

\* ------------------------------------------------------------------------
\* C6: navigateToChapter(c) with c = currentSection schedules no timer and
\* leaves currentSection, the active marks and the URL fragment unchanged.
\* ------------------------------------------------------------------------
SameSectionIsNoOp ==
    [][ \A c \in Targets :
          (c = currentSection /\ SingleCall(c))
              => UNCHANGED << currentSection, active, hash, timers >> ]_vars

SameSectionRequested == hist.n > 0 /\ hist.last = hist.lastFrom

\* ------------------------------------------------------------------------
\* C7: navigateToChapter(t) with t naming no section schedules no timer and
\* leaves currentSection, the active marks and the URL fragment unchanged.
\* ------------------------------------------------------------------------
MissingTargetIsNoOp ==
    [][ \A c \in Targets :
          (~GetElementById(doc, c) /\ SingleCall(c))
              => UNCHANGED << currentSection, active, hash, timers >> ]_vars

MissingTargetRequested ==
    hist.n > 0 /\ ~GetElementById(doc, hist.last) /\ hist.last # hist.lastFrom

\* ------------------------------------------------------------------------
\* C8: ArrowRight requests chapters[(i+1) mod n] and ArrowLeft requests
\* chapters[(i-1) mod n], i the index of currentSection, n the length of
\* the catalog.
\* ------------------------------------------------------------------------
ArrowKeysWrap ==
    [][ \A key \in { "ArrowLeft", "ArrowRight" }, mod \in BOOLEAN :
          KeyDown(key, mod, NoPrompt)
              => LET n == Len(chapters)
                     i == IndexOf(currentSection)
                     d == IF key = "ArrowRight" THEN 1 ELSE n - 1
                 IN  /\ hist'.by = key
                     /\ hist'.last = chapters[((i + d) % n) + 1] ]_vars

WrappedFromLastToFirst ==
    /\ hist.by = "ArrowRight"
    /\ hist.idle
    /\ hist.n = 1
    /\ hist.lastFrom = chapters[Len(chapters)]
    /\ hist.last = chapters[1]

\* ------------------------------------------------------------------------
\* C9: performSearch(term) issues one navigateToChapter request, for the
\* first section in document order whose text contains term.
\* ------------------------------------------------------------------------
SearchVisitsFirstMatchOnly ==
    [][ \A p \in PromptResults :
          (Accepted(p) /\ Matching(TermOf(p)) # { } /\ SearchStep(p))
              => /\ hist'.last = FirstMatch(TermOf(p))
                 /\ timers = << >> => hist'.n = 1 ]_vars

\* ------------------------------------------------------------------------
\* C10: a search matching no section shows one 'No results found' warning
\* and leaves currentSection, the active marks, the active menu entry and
\* the URL fragment unchanged and schedules no timer; a search matching a
\* section shows no such warning.
\* ------------------------------------------------------------------------
NoMatchOnlyNotifies ==
    [][ \A p \in PromptResults :
          (Accepted(p) /\ SearchStep(p))
              => IF Matching(TermOf(p)) = { }
                 THEN /\ notified' = 1
                      /\ UNCHANGED << currentSection, active, navActive, hash, timers >>
                 ELSE notified' = 0 ]_vars

NoResultsShown == notified = 1

\* ------------------------------------------------------------------------
\* C11: a search prompt that is cancelled, empty or whitespace-only is a
\* silent no-op: performSearch is not run, no navigation is requested, no
\* notification is shown, and currentSection, the active marks, the active
\* menu entry, the URL fragment and the timers are unchanged.
\* ------------------------------------------------------------------------
RejectedQueryIsNoOp ==
    [][ \A p \in PromptResults :
          (~Accepted(p) /\ (ClickSearchIcon(p) \/ KeyDown("f", TRUE, p)))
              => /\ event'.prompt = "rejected"
                 /\ notified' = 0
                 /\ hist' = hist
                 /\ UNCHANGED << currentSection, active, navActive, hash,
                                 timers, uncaught >> ]_vars

QueryRejected == event.prompt = "rejected" /\ nEvents > 0

\* ------------------------------------------------------------------------
\* C12: after Escape has been pressed in any state, a transition pending
\* or not, and no navigation has been requested since, once every callback
\* has fired introduction is the active section and currentSection.
\* ------------------------------------------------------------------------
EscapeReturnsHome ==
    (Quiescent /\ hist.by = "Escape")
        => (currentSection = "introduction" /\ active = { "introduction" })

\* The latest episode is one request, made by Cmd/Ctrl + digit in an idle
\* state, and all its callbacks have fired.
DigitJumpDone ==
    /\ hist.by = "digit"
    /\ hist.n = 1
    /\ hist.idle
    /\ timers = << >>

\* ------------------------------------------------------------------------
\* C13 as stated: a keydown of digit d in 1..9 with Meta or Ctrl held calls
\* navigateToChapter(chapters[d-1]); made in an idle state, it ends with
\* that entry the active section.
\* ------------------------------------------------------------------------
DigitJumpsToEntry ==
    [][ /\ \A key \in DigitKeys :
             (event'.prevented /\ event'.prompt = "none"
                 /\ KeyDown(key, TRUE, NoPrompt))
                 => (hist'.by = "digit" /\ hist'.last = chapters[ParseInt(key)])
        /\ DigitJumpDone' => active' = { hist'.last } ]_vars

\* C13 as amended: the same, the request ending with that entry the active
\* section when the entry's section exists in the document.
DigitJumpsToExistingEntry ==
    [][ /\ \A key \in DigitKeys :
             (event'.prevented /\ event'.prompt = "none"
                 /\ KeyDown(key, TRUE, NoPrompt))
                 => (hist'.by = "digit" /\ hist'.last = chapters[ParseInt(key)])
        /\ (DigitJumpDone' /\ GetElementById(doc, hist'.last))
              => (active' = { hist'.last } /\ currentSection' = hist'.last) ]_vars

DigitJumpCompleted ==
    DigitJumpDone /\ hist.fired /\ hist.last = chapters[3] /\ active = { chapters[3] }

\* ------------------------------------------------------------------------
\* C14: in every state with no callback pending, reached after menu
\* clicks, keyboard shortcuts and searches that requested a navigation,
\* exactly one menu entry is marked active and it is the entry of
\* currentSection.
\* ------------------------------------------------------------------------
MenuMirrorsCurrentSection ==
    (Quiescent /\ hist.n > 0) => navActive = { currentSection }

\* The key event is one of the shortcuts: Mod+1..9, ArrowLeft, ArrowRight,
\* Escape, Mod+F.
RecognizedShortcut(key, mod) ==
    \/ mod /\ key \in DigitKeys
    \/ key \in { "ArrowLeft", "ArrowRight", "Escape" }
    \/ mod /\ key = "f"

\* ------------------------------------------------------------------------
\* C15: the keydown listeners call preventDefault on the event of every
\* recognized shortcut (Mod+1..9, ArrowLeft, ArrowRight, Escape, Mod+F).
\* ------------------------------------------------------------------------
ShortcutsPreventDefault ==
    [][ \A key \in Keys, mod \in BOOLEAN :
          \A p \in PromptsOn(key, mod) :
              (RecognizedShortcut(key, mod) /\ KeyDown(key, mod, p))
                  => event'.prevented ]_vars

\* ------------------------------------------------------------------------
\* C16: startup restore.  Before any input (the URL fragment is then still
\* the one the page was loaded with): if the fragment names a section of
\* the document, then once the callbacks have fired that section is active
\* and is currentSection; otherwise introduction stays active and no timer
\* is scheduled.
\* ------------------------------------------------------------------------
StartupRestoresFragment ==
    (loaded /\ nEvents = 0)
        => IF hash # "" /\ GetElementById(doc, hash)
           THEN timers = << >> => (currentSection = hash /\ active = { hash })
           ELSE /\ timers = << >>
                /\ currentSection = "introduction"
                /\ active = { "introduction" }

ExitFiresBeforeEnter ==
    (SoloNavigation /\ hist.last \in active)
        => \A i \in 1..Len(timers) : timers[i].kind # "exit"

\* ------------------------------------------------------------------------
\* C19: the click, keyboard and search adapters, the startup handler and
\* updateActiveNav leave currentSection and every section's active mark
\* unchanged in their own synchronous step: only the deferred callbacks
\* change them.
\* ------------------------------------------------------------------------
AdaptersLeaveSectionsAlone ==
    [][ (nEvents' # nEvents \/ loaded' # loaded)
            => UNCHANGED << currentSection, active >> ]_vars

NavigationRequestedAndMarked ==
    /\ nEvents > 0
    /\ timers # << >>
    /\ ~hist.fired
    /\ navActive = { hist.last }
    /\ currentSection = hist.from
    /\ active = { hist.from }
    /\ hist.last # hist.from

\* The step runs the enter callback of timer i, its audio cue meeting sound.
EnterStep(i, sound) ==
    /\ hist'.soundThrew = (sound = "throws")
    /\ timers[i].kind = "enter"
    /\ FireTimer(i, sound)

\* ------------------------------------------------------------------------
\* C20 as stated: whether the audio cue plays, fails or is unsupported, the
\* enter callback marks its target active, sets currentSection to it and
\* rewrites the URL fragment to it, and no exception leaves the callback.
\* ------------------------------------------------------------------------
SoundNeverInterruptsNorUrl ==
    [][ \A i \in 1..Len(timers), sound \in AudioOutcomes :
          EnterStep(i, sound)
              => /\ active' = { timers[i].id }
                 /\ currentSection' = timers[i].id
                 /\ hash' = timers[i].id
                 /\ ~uncaught' ]_vars

\* C20 as amended: the same, the URL fragment being rewritten when the
\* browser provides history.pushState.
SoundNeverInterrupts ==
    [][ \A i \in 1..Len(timers), sound \in AudioOutcomes :
          EnterStep(i, sound)
              => /\ active' = { timers[i].id }
                 /\ currentSection' = timers[i].id
                 /\ pushState => hash' = timers[i].id
                 /\ ~uncaught' ]_vars

ShownAlthoughSoundFailed ==
    /\ hist.soundThrew
    /\ pushState
    /\ currentSection # hist.from
    /\ active = { currentSection }
    /\ hash = currentSection
    /\ ~uncaught

\* ------------------------------------------------------------------------
\* C21: the URL fragment is written only in the callback step that assigns
\* currentSection, and where history.pushState is provided that step
\* leaves the fragment equal to currentSection; so once an enter callback
\* has fired the fragment equals currentSection and stays equal to it,
\* whatever the interleaving of requests and timers.
\* ------------------------------------------------------------------------
UrlFollowsCurrentSection ==
    [][ /\ (hash' # hash \/ currentSection' # currentSection)
              => \E i \in 1..Len(timers), sound \in AudioOutcomes : EnterStep(i, sound)
        /\ pushState
              => /\ (Len(timers') < Len(timers) /\ hist'.fired
                        /\ \E i \in 1..Len(timers), sound \in AudioOutcomes :
                               EnterStep(i, sound))
                     => hash' = currentSection'
                 /\ hash = currentSection => hash' = currentSection' ]_vars

UrlSyncedDuringRace ==
    /\ pushState
    /\ hist.n >= 2
    /\ hist.fired
    /\ timers # << >>
    /\ \E i \in 1..Len(timers) : timers[i].kind = "enter"
    /\ currentSection # "introduction"
    /\ hash = currentSection

\* A call navigateToChapter(x) was accepted and its enter callback has not
\* run yet.
Requested(x) ==
    \E i \in 1..Len(timers) : timers[i].kind = "enter" /\ timers[i].id = x

\* ------------------------------------------------------------------------
\* C22: every accepted request navigateToChapter(x) (x an existing section
\* other than currentSection) leads, the timers firing, to a state where x
\* is the active section and currentSection; and once input has ceased
\* every pending callback fires, leaving no transition in progress.
\* ------------------------------------------------------------------------
EveryRequestTakesEffect ==
    /\ \A x \in { chapters[i] : i \in 1..Len(chapters) } :
          Requested(x) ~> (active = { x } /\ currentSection = x)
    /\ <>[](timers = << >>)

EarlierRequestTookEffect ==
    /\ hist.n = 2
    /\ hist.fired
    /\ hist.targets[1] # hist.targets[2]
    /\ currentSection = hist.targets[1]
    /\ active = { hist.targets[1] }
    /\ Requested(hist.targets[2])

====
